---- MODULE Spec2Model ----
(***************************************************************************)
(* hydra-provisioner: one run of main() (src/hydra_provisioner/__main__.py) *)
(* as a state machine.  A run fetches the dispatcher status, sizes every    *)
(* machine type, selects or creates deployments, classifies the rest        *)
(* (retention), deploys the in-use ones, emits the roster (nix.machines)    *)
(* and retires the expired ones.                                            *)
(*                                                                          *)
(* Strings the program inspects are sequences of tokens: a machine type is  *)
(* <<"x86_64-linux">> or <<"aarch64-linux", ":", "big">>, a deployment      *)
(* argument is a sequence of characters that may hold the quote character.  *)
(***************************************************************************)
EXTENDS Integers, Sequences, FiniteSets, TLC

\* ------------------------------------------------------------------ bounds

\* Deployments in the state file when the run starts.
MaxExisting == 2
\* Deployments whose deploy or keep-alive touch fails in one run.
MaxDeployFailures == 1
\* The sizer's inputs: the runnable count of a type, and its ignoredRunnables,
\* runnablesPerMachine, minMachines and maxMachines.
MaxRunnable == 7
MaxIgnored == 2
MaxPerMachine == 3
MaxMachines == 2
\* Runs of the controller, one after the other on the same state file.
MaxRuns == 4

\* ------------------------------------------------------- program constants

QUOTE == "\""

\* config.get("tag", "hydra-provisioned"), as a sequence of tokens.
DefaultTag == <<"hydra-provisioned">>

TypeA == <<"x86_64-linux">>
TypeA32 == <<"i686-linux">>
TypeB == <<"aarch64-linux", ":", "big">>
TypeNames == {TypeA, TypeB}

\* "time_left >= 30 * 60" and "time_left >= 10 * 60".
KeepPaidTime == 30 * 60
RetirePaidTime == 10 * 60
\* nixops.resources.ResourceState, and "none" for a deployment that has no
\* resource called "machine".
MachineStates == {"none", "missing", "starting", "up", "stopped", "unreachable"}

\* One slot per deployment the state file can hold: those that exist at the
\* start and one creation per configured machine type.
Slots == 1 .. (MaxExisting + Cardinality(TypeNames))

NoCharge == 0

\* ----------------------------------------------------------------- helpers

Max(a, b) == IF a >= b THEN a ELSE b
Min(a, b) == IF a <= b THEN a ELSE b

\* dict.get(key, default)
Get(d, key, default) == IF key \in DOMAIN d THEN d[key] ELSE default

\* math.ceil(n / float(d)) for n >= 0, d >= 1
Ceil(n, d) == (n + d - 1) \div d

\* s.replace('"', '')
StripQuotes(s) == SelectSeq(s, LAMBDA c : c # QUOTE)

\* type_name.replace("i686-linux", "x86_64-linux")
ReplaceI686(t) == [i \in DOMAIN t |-> IF t[i] = "i686-linux" THEN "x86_64-linux" ELSE t[i]]

\* type_name.startswith("i686-linux")
StartsWithI686(t) == Len(t) > 0 /\ t[1] = "i686-linux"

\* The elements of a set of slots as a list in slot order.
RECURSIVE SetToSeq(_)
SetToSeq(S) ==
    IF S = {} THEN << >>
    ELSE LET m == CHOOSE x \in S : \A y \in S : x <= y
         IN <<m>> \o SetToSeq(S \ {m})

Range(s) == {s[i] : i \in DOMAIN s}

\* "for depl in <set>": the loops over in_use and expired are sequential and
\* no iteration reads what another one wrote; the order a set is walked in is
\* taken to be the order of the slots.
NextOf(S, d) == \A e \in S : d <= e

\* Fault: the loop is left after its first iteration.
ExhaustedEarly(rest) == TRUE

\* "for depl in <set>" ends when every element has been visited.
Exhausted(rest) == rest = {}

VARIABLES
    pc,          \* the phase main() is in
    abortCause,  \* the uncaught exception that ended the run, "" if none
    now,         \* int(time.time())
    config,      \* the evaluated policy
    status,      \* the dispatcher status after normalisation
    inv,         \* the state file: slot -> deployment
    inv0,        \* the state file as the run found it
    depls,       \* list of the deployments carrying the tag
    typesLeft,   \* machine types the sizing loop has not visited yet
    sel,         \* the selection loop's locals: type, allowed, have, created, existing
    inUse, expired, unusable, deployed,
    toDeploy,    \* in_use deployments the deploy loop has not visited yet
    toRetire,    \* expired deployments the retirement loop has not visited yet
    roster,      \* machines_list, once emitted
    log          \* the calls made on the deployment engine in this run

vars == <<pc, abortCause, now, config, inv0, status, inv, depls, typesLeft, sel,
          inUse, expired, unusable, deployed, toDeploy, toRetire, roster, log>>

\* ------------------------------------------------------------ deployments

\* get_depl_arg(depl, key): the raw argument with its quotes removed.
get_depl_arg(depl, key) == StripQuotes(Get(depl.args, key, << >>))

\* depl_state(depl)
depl_state(depl) == IF depl.mstate = "none" THEN "missing" ELSE depl.mstate

\* get_depl_time_left(depl), read at time t
get_depl_time_left(depl, t) ==
    IF depl.mstate = "none" THEN 0
    ELSE IF depl.nct = NoCharge THEN 0
    ELSE Max(depl.nct - t, 0)

\* m.get_ssh_name(): each machine has an address of its own.
get_ssh_name(d) == <<"host", ToString(d)>>
SshTarget(d) == <<"root@">> \o get_ssh_name(d)

\* prefix + "-" + str(i)
DeplName(prefix, i) == prefix \o <<"-", ToString(i)>>

\* get_new_deployment_name(prefix, depls): the first i whose name no
\* deployment of the list has.
get_new_deployment_name(prefix, list) ==
    LET names == {inv[list[k]].name : k \in DOMAIN list}
        i == CHOOSE i \in 0 .. Len(list) :
                /\ DeplName(prefix, i) \notin names
                /\ \A j \in 0 .. (i - 1) : DeplName(prefix, j) \in names
    IN DeplName(prefix, i)

\* A slot of the state file that holds no deployment.
NoDepl == [alive |-> FALSE, name |-> << >>, args |-> << >>, mstate |-> "none", nct |-> NoCharge]

NewDepl(name, tag, type, mstate, nct) ==
    [alive |-> TRUE, name |-> name, args |-> [tag |-> tag, type |-> type],
     mstate |-> mstate, nct |-> nct]

\* ------------------------------------------------------------------ inputs

\* The policy documents the runs are checked with.  Keys a TypePolicy leaves
\* out take the defaults of the code.
BaseA == [nixopsExpr |-> "a.nix", maxMachines |-> 2, ignoredRunnables |-> 5]
TypeConfigsA ==
    { BaseA,
      BaseA @@ [gracePeriod |-> 600],
      BaseA @@ [stopOnIdle |-> TRUE] }
ConfigB == [nixopsExpr |-> "b.nix", minMachines |-> 1]

Policies ==
    { [tag |-> DefaultTag, systemTypes |-> (TypeA :> c)] : c \in TypeConfigsA }
    \cup { [tag |-> DefaultTag, systemTypes |-> (TypeA :> BaseA) @@ (TypeB :> ConfigB)] }

\* What a deployment found in the state file at the start of a run looks
\* like: its tag and type arguments, the state of its machine and the paid
\* time it has left ("absent" when the slot holds no deployment).
Shape(tag, type, mstate, left) == [tag |-> tag, type |-> type, mstate |-> mstate, left |-> left]
Absent == Shape(<< >>, << >>, "absent", 0)
OwnShapes ==
    { Absent, Shape(DefaultTag, TypeA, "none", -1) }
    \cup { Shape(DefaultTag, TypeA, "up", n) : n \in {0, RetirePaidTime, KeepPaidTime} }
    \cup { Shape(DefaultTag, TypeA, "starting", RetirePaidTime),
           Shape(DefaultTag, TypeA, "stopped", RetirePaidTime),
           Shape(DefaultTag, TypeB, "up", KeepPaidTime) }
\* Deployments that do not carry the tag of the policy; the state file holds
\* at most one, in its first slot.
ForeignShapes ==
    { Shape(DefaultTag \o <<QUOTE>>, TypeA, "up", -1),
      Shape(<<"other">>, TypeA, "up", -1) }
\* A state file with more than two deployments has, after the second, ones
\* that are up, with paid time or without.
MoreShapes ==
    { Absent, Shape(DefaultTag, TypeA, "up", 0), Shape(DefaultTag, TypeA, "up", KeepPaidTime) }
ExistingShapes(d) ==
    IF d = 1 THEN OwnShapes \cup ForeignShapes
    ELSE IF d = 2 THEN OwnShapes
    ELSE MoreShapes

\* The deployment of a shape in slot d at time t.  A paid time of -1 is a
\* machine without a next charge time, one of 0 a charge time that has passed.
Existing(d, shape, t) ==
    IF shape = Absent THEN NoDepl
    ELSE NewDepl(DeplName(DefaultTag, d - 1), shape.tag, shape.type, shape.mstate,
                 IF shape.left = -1 THEN NoCharge
                 ELSE IF shape.left = 0 THEN t - 100 ELSE t + shape.left)

\* What the status command prints when it works: the machine types with
\* their runnable counts, and the machines that have jobs.
MachineTypeDocs(t) ==
    { (TypeA :> [runnable |-> 6]),
      (TypeA32 :> [runnable |-> 6, lastActive |-> t - 120]),
      (TypeA :> [runnable |-> 26, lastActive |-> 0]),
      (TypeA :> [runnable |-> 20, lastActive |-> 0]) @@ (TypeA32 :> [runnable |-> 6]),
      (TypeA :> [runnable |-> 0, lastActive |-> t - 120]) @@ (TypeB :> [runnable |-> 6]) }

MachinesDoc(busy) ==
    [k \in {SshTarget(d) : d \in busy} |-> [currentJobs |-> 2]]

StatusDocs(t) ==
    { [status |-> "up", uptime |-> 5000, machineTypes |-> mt, machines |-> MachinesDoc({})] :
        mt \in MachineTypeDocs(t) }
    \cup { [status |-> "up", uptime |-> 5000, machineTypes |-> mt,
            machines |-> MachinesDoc(1 .. MaxExisting)] :
             mt \in { (TypeA :> [runnable |-> 6]),
                      (TypeA :> [runnable |-> 0, lastActive |-> t - 120])
                          @@ (TypeB :> [runnable |-> 6]) } }

DownStatus == [status |-> "down", machineTypes |-> << >>, machines |-> << >>, uptime |-> 0]

NoSel == [type |-> << >>, allowed |-> 0, have |-> 0, created |-> 0, existing |-> << >>]
\* The log of a run: the deployments checked and those the check found not
\* up, those given a recipe, those created (with the loop's counters at that
\* moment), those the selection loop took, the deploys tried with their
\* outcomes, whether the roster was handed over, and the stop, destroy and
\* delete calls; and, when the controller is run again, what the runs before
\* this one found and did.
NoLog == [checked |-> {}, demoted |-> {}, recipe |-> {}, created |-> {},
          selected |-> {}, tried |-> {}, emitted |-> FALSE,
          stopped |-> {}, destroyed |-> {}, deleted |-> {}, past |-> << >>]

Init ==
    /\ pc = "fetch"
    /\ abortCause = ""
    /\ now = 10000
    /\ config \in Policies
    /\ status = DownStatus
    /\ \E shapes \in [1 .. MaxExisting -> OwnShapes \cup ForeignShapes] :
         /\ \A d \in 1 .. MaxExisting : shapes[d] \in ExistingShapes(d)
         /\ inv = [d \in Slots |-> IF d <= MaxExisting THEN Existing(d, shapes[d], 10000)
                                ELSE NoDepl]
    \* depls = [depl for depl in all_depls if get_depl_arg(depl, "tag") == tag]
    /\ depls = SetToSeq({d \in Slots : inv[d].alive /\ get_depl_arg(inv[d], "tag") = config.tag})
    /\ inv0 = inv
    /\ typesLeft = {}
    /\ sel = NoSel
    /\ inUse = {} /\ expired = {} /\ unusable = {} /\ deployed = {}
    /\ toDeploy = {} /\ toRetire = {}
    /\ roster = << >>
    /\ log = NoLog

\* ------------------------------------------------------------ status fetch

\* What running the status command can give: a document, a document that
\* says "down", a non-zero exit, output that is no JSON, and a document
\* without its "status" key.
FetchOutcomes(t) ==
    { [kind |-> "ok", doc |-> doc] : doc \in StatusDocs(t) }
    \cup { [kind |-> k, doc |-> DownStatus] :
             k \in {"down", "exit_nonzero", "not_json", "no_status_key"} }

\* The machine types of a status document after the i686-linux types are
\* squashed into their x86_64-linux types.
Squash(mt) ==
    LET old == {t \in DOMAIN mt : StartsWithI686(t)}
        kept == DOMAIN mt \ old
        from(t) == {o \in old : ReplaceI686(o) = t}
        RECURSIVE Sum(_)
        Sum(S) == IF S = {} THEN 0
                  ELSE LET o == CHOOSE o \in S : TRUE
                       IN mt[o].runnable + Sum(S \ {o})
    IN [t \in kept \cup {ReplaceI686(o) : o \in old} |->
          IF t \in kept
          THEN [mt[t] EXCEPT !.runnable = @ + Sum(from(t))]
          ELSE mt[CHOOSE o \in from(t) : TRUE]]

Abort(cause) ==
    /\ pc' = "aborted"
    /\ abortCause' = cause

\* Lines 66-89: run the status command, normalise what it printed, squash
\* the i686-linux types, and list the machine types to size.
StatusFetch ==
    /\ pc = "fetch"
    /\ \E out \in FetchOutcomes(now), changedKeysRaise \in BOOLEAN :
         LET \* json.loads raises on output that is no JSON; only
             \* CalledProcessError is caught.
             parsed == out.kind # "not_json"
             \* "not status" holds for None; status["status"] raises
             \* KeyError on a document without it.
             keyError == out.kind = "no_status_key"
             doc == IF out.kind = "ok" THEN out.doc ELSE DownStatus
             old == {t \in DOMAIN doc.machineTypes : StartsWithI686(t)}
             \* Deleting a key while iterating over keys(): a RuntimeError
             \* at the next step of the iteration when the size changed, and
             \* on the interpreters that check it when only the keys did.
             sizeChanged == \E o \in old : ReplaceI686(o) \in DOMAIN doc.machineTypes
             iterError == old # {} /\ (sizeChanged \/ changedKeysRaise)
             squashed == [doc EXCEPT !.machineTypes = Squash(@)]
         IN  /\ IF ~parsed \/ keyError
                THEN Abort("status") /\ UNCHANGED <<status, typesLeft>>
                ELSE IF iterError
                THEN Abort("squash") /\ UNCHANGED <<status, typesLeft>>
                ELSE /\ status' = squashed
                     /\ typesLeft' = DOMAIN squashed.machineTypes
                                        \cup DOMAIN config.systemTypes
                     /\ pc' = "types"
                     /\ UNCHANGED abortCause
    /\ UNCHANGED <<now, config, inv0, inv, depls, sel, inUse, expired, unusable, deployed,
                   toDeploy, toRetire, roster, log>>

\* ------------------------------------------------------------------- sizer

\* Fault: the division rounds down.
WantedFloor(runnable, type_config) ==
    Max(runnable - Get(type_config, "ignoredRunnables", 0), 0)
        \div Get(type_config, "runnablesPerMachine", 10)

\* Line 106: wanted = ceil(max(runnable - ignoredRunnables, 0) / runnablesPerMachine)
Wanted(runnable, type_config) ==
    Ceil(Max(runnable - Get(type_config, "ignoredRunnables", 0), 0),
         Get(type_config, "runnablesPerMachine", 10))

\* Fault: the clamp to maxMachines is left out.
AllowedUnclamped(wanted, type_config) ==
    Max(wanted, Get(type_config, "minMachines", 0))

\* Line 107: allowed = min(max(wanted, minMachines), maxMachines)
Allowed(wanted, type_config) ==
    Min(Max(wanted, Get(type_config, "minMachines", 0)),
        Get(type_config, "maxMachines", 1))

IsUp(d) == depl_state(inv[d]) = "up"

\* Fault: the pool is left in the order it has.
SortAsIs(list, i) == list

\* Fault: the head of the pool is not removed.
NotPopped(list) == list

\* existing.pop(0)
Popped(list) == Tail(list)

\* list.sort(key=depl_sort_key): a stable sort, the deployments that are up
\* first.  The states are those of the inventory i.
SortUpFirst(list, i) ==
    SelectSeq(list, LAMBDA d : depl_state(i[d]) = "up")
    \o SelectSeq(list, LAMBDA d : depl_state(i[d]) # "up")

\* Lines 96-120: the for loop takes the next machine type, in no particular
\* order (system_types is a set), and sizes it.
TypeUnconfigured ==
    /\ pc = "types"
    /\ \E t \in typesLeft :
         /\ t \notin DOMAIN config.systemTypes
         /\ typesLeft' = typesLeft \ {t}
    /\ UNCHANGED <<pc, abortCause, now, config, inv0, status, inv, depls, sel, inUse, expired,
                   unusable, deployed, toDeploy, toRetire, roster, log>>

TypeSized ==
    /\ pc = "types"
    /\ \E t \in typesLeft :
         /\ t \in DOMAIN config.systemTypes
         /\ LET type_status == Get(status.machineTypes, t, [runnable |-> 0])
                type_config == config.systemTypes[t]
                wanted == Wanted(type_status.runnable, type_config)
                existing == SelectSeq(depls, LAMBDA d : get_depl_arg(inv[d], "type") = t)
            IN /\ sel' = [type |-> t, allowed |-> Allowed(wanted, type_config), have |-> 0,
                          created |-> 0, existing |-> SortUpFirst(existing, inv)]
               \* Line 121: "while have < allowed"
               /\ pc' = IF 0 < Allowed(wanted, type_config) THEN "select" ELSE "types"
         /\ typesLeft' = typesLeft \ {t}
    /\ UNCHANGED <<abortCause, now, config, inv0, status, inv, depls, inUse, expired, unusable,
                   deployed, toDeploy, toRetire, roster, log>>


\* --------------------------------------------------------------- selection

\* Fault: the loop goes on after a creation.
NeverBreaks(created) == FALSE

\* Line 167: "if created >= 1: break"
BreaksLoop(created) == created >= 1

\* Lines 160-167: the deployment is given the recipe of the type, is put in
\* in_use and counts toward have.
Accept(d, created, existing) ==
    /\ inUse' = inUse \cup {d}
    /\ sel' = [sel EXCEPT !.have = @ + 1, !.created = created, !.existing = existing]
    \* Line 121: "while have < allowed"
    /\ pc' = IF BreaksLoop(created) \/ sel.have + 1 >= sel.allowed THEN "types" ELSE "select"

\* Lines 124-137: the pool is empty, a deployment is created.
SelectCreate ==
    /\ pc = "select"
    /\ sel.have < sel.allowed
    /\ sel.existing = << >>
    /\ \E s \in Slots :
         /\ ~inv[s].alive
         /\ s \notin Range(depls)
         /\ \A r \in Slots : (~inv[r].alive /\ r \notin Range(depls)) => s <= r
         /\ inv' = [inv EXCEPT ![s] = NewDepl(get_new_deployment_name(config.tag, depls),
                                              config.tag, sel.type, "none", NoCharge)]
         /\ depls' = Append(depls, s)
         /\ log' = [log EXCEPT !.created = @ \cup {[depl |-> s, type |-> sel.type,
                                                       pool |-> Len(sel.existing),
                                                       have |-> sel.have,
                                                       allowed |-> sel.allowed]},
                               !.recipe = @ \cup {s},
                               !.selected = @ \cup {s}]
         /\ Accept(s, sel.created + 1, sel.existing)
    /\ UNCHANGED <<abortCause, now, config, inv0, status, typesLeft, expired, unusable,
                   deployed, toDeploy, toRetire, roster>>

\* Lines 140-152 and 158-165: the head of the pool is up; machine.check()
\* says what it really is.  Still up, it is taken.
SelectCheckedUp ==
    /\ pc = "select"
    /\ sel.have < sel.allowed
    /\ sel.existing # << >>
    /\ IsUp(Head(sel.existing))
    /\ LET d == Head(sel.existing)
       IN /\ log' = [log EXCEPT !.checked = @ \cup {d}, !.recipe = @ \cup {d},
                                !.selected = @ \cup {d}]
          /\ Accept(d, sel.created, Popped(sel.existing))
    /\ UNCHANGED <<abortCause, now, config, inv0, status, inv, depls, typesLeft, expired,
                   unusable, deployed, toDeploy, toRetire, roster>>

\* Lines 146-150: the check finds the machine in another state; the pool is
\* sorted again, the deployment still in it, and the loop goes on.
SelectCheckedDown ==
    /\ pc = "select"
    /\ sel.have < sel.allowed
    /\ sel.existing # << >>
    /\ IsUp(Head(sel.existing))
    /\ \E st \in {"missing", "unreachable"} :
         LET d == Head(sel.existing)
             checked == [inv EXCEPT ![d].mstate = st]
         IN /\ inv' = checked
            /\ sel' = [sel EXCEPT !.existing = SortUpFirst(@, checked)]
            /\ log' = [log EXCEPT !.checked = @ \cup {d}, !.demoted = @ \cup {d}]
    /\ UNCHANGED <<pc, abortCause, now, config, inv0, status, depls, typesLeft, inUse, expired,
                   unusable, deployed, toDeploy, toRetire, roster>>

\* Line 146 with an exception out of check(): nothing catches it.
SelectCheckRaises ==
    /\ pc = "select"
    /\ sel.have < sel.allowed
    /\ sel.existing # << >>
    /\ IsUp(Head(sel.existing))
    /\ log' = [log EXCEPT !.checked = @ \cup {Head(sel.existing)}]
    /\ Abort("check")
    /\ UNCHANGED <<now, config, inv0, status, inv, depls, typesLeft, sel, inUse, expired,
                   unusable, deployed, toDeploy, toRetire, roster>>

\* Lines 154-156: the head of the pool is missing; it is dropped.
SelectDiscardMissing ==
    /\ pc = "select"
    /\ sel.have < sel.allowed
    /\ sel.existing # << >>
    /\ depl_state(inv[Head(sel.existing)]) = "missing"
    /\ sel' = [sel EXCEPT !.existing = Popped(@)]
    /\ UNCHANGED <<pc, abortCause, now, config, inv0, status, inv, depls, typesLeft, inUse,
                   expired, unusable, deployed, toDeploy, toRetire, roster, log>>

\* Lines 158-165: the head of the pool is neither up nor missing; it is taken.
SelectAcceptOther ==
    /\ pc = "select"
    /\ sel.have < sel.allowed
    /\ sel.existing # << >>
    /\ depl_state(inv[Head(sel.existing)]) \notin {"up", "missing"}
    /\ LET d == Head(sel.existing)
       IN /\ log' = [log EXCEPT !.recipe = @ \cup {d}, !.selected = @ \cup {d}]
          /\ Accept(d, sel.created, Popped(sel.existing))
    /\ UNCHANGED <<abortCause, now, config, inv0, status, inv, depls, typesLeft, expired,
                   unusable, deployed, toDeploy, toRetire, roster>>

\* --------------------------------------------------------------- retention

\* Line 183: grace_period = type_config.get("gracePeriod", 0) if type_config else 0
GracePeriod(d) ==
    LET type_name == get_depl_arg(inv[d], "type")
    IN IF type_name \in DOMAIN config.systemTypes
       THEN Get(config.systemTypes[type_name], "gracePeriod", 0)
       ELSE 0

\* Lines 196-198: the deployment's machine has jobs on the dispatcher.
HasCurrentJobs(d) ==
    LET machine_status == Get(status.machines, SshTarget(d), << >>)
    IN Get(machine_status, "currentJobs", 0) # 0

\* Fault: the imputed value is the dispatcher's start, without the 1800 s.
LastActiveNoSlack(d) ==
    LET type_name == get_depl_arg(inv[d], "type")
        type_status == Get(status.machineTypes, type_name, << >>)
        last_active == Get(type_status, "lastActive", 0)
    IN IF last_active = 0 THEN now - status.uptime ELSE last_active

\* Lines 212-213: when the type was last active; a missing or zero value is
\* taken to be int(time.time()) - status["uptime"] + 1800.
LastActive(d) ==
    LET type_name == get_depl_arg(inv[d], "type")
        type_status == Get(status.machineTypes, type_name, << >>)
        last_active == Get(type_status, "lastActive", 0)
    IN IF last_active = 0 THEN now - status.uptime + 1800 ELSE last_active

\* Line 205: an active deployment kept out of the roster.
MarkedUnusable(grace_period) == grace_period > 0

\* Fault: exactly 30 minutes of paid time are not enough to be kept.
RetentionStrict(d) ==
    IF depl_state(inv[d]) \notin {"up", "starting"} THEN "expired"
    ELSE IF get_depl_time_left(inv[d], now) > KeepPaidTime THEN "paid"
    ELSE IF HasCurrentJobs(d) THEN "active"
    ELSE IF now - LastActive(d) < GracePeriod(d) THEN "recent"
    ELSE "expired"

\* Lines 175-220: why a deployment the selection did not take is kept, or
\* that it is expired.  The first rule that applies decides.
Retention(d) ==
    IF depl_state(inv[d]) \notin {"up", "starting"} THEN "expired"
    ELSE IF get_depl_time_left(inv[d], now) >= KeepPaidTime THEN "paid"
    ELSE IF HasCurrentJobs(d) THEN "active"
    ELSE IF now - LastActive(d) < GracePeriod(d) THEN "recent"
    ELSE "expired"

\* Lines 169-220: the retention loop over depls.  It calls nothing outside
\* the program, so it is one step.
RetentionPass ==
    \* Line 96: the loop over system_types has ended.
    /\ pc = "types"
    /\ typesLeft = {}
    /\ LET rest == Range(depls) \ inUse
           kept == {d \in rest : Retention(d) # "expired"}
       IN /\ inUse' = inUse \cup kept
          /\ expired' = rest \ kept
          /\ unusable' = {d \in rest : Retention(d) = "active" /\ MarkedUnusable(GracePeriod(d))}
          /\ toDeploy' = inUse \cup kept
          /\ pc' = IF inUse \cup kept = {} THEN "roster" ELSE "deploy"
    /\ UNCHANGED <<abortCause, now, config, inv0, status, inv, depls, typesLeft, sel, deployed,
                   toRetire, roster, log>>

\* ------------------------------------------------------------------ deploy

\* up_to_date: nothing is ever added to it (line 152 is commented out).
up_to_date == {}

\* Fault: the deployment is added whatever the deploy and the touch did.
InDeployedAlways(d, outcome) == TRUE

\* Lines 225-235: whether the deployment ends up in deployed.  An exception
\* out of deploy() or of the keep-alive touch reaches "continue".
InDeployed(d, outcome) == IF d \notin up_to_date THEN outcome = "ok" ELSE TRUE

\* Lines 224-235: the next deployment of in_use is deployed and touched.
DeployOne ==
    /\ pc = "deploy"
    /\ \E d \in toDeploy, outcome \in {"ok", "deploy_failed", "touch_failed"} :
         /\ NextOf(toDeploy, d)
         /\ outcome # "ok" =>
              Cardinality({r \in log.tried : r.outcome # "ok"}) < MaxDeployFailures
         /\ toDeploy' = toDeploy \ {d}
         /\ log' = [log EXCEPT !.tried = @ \cup {[depl |-> d, outcome |-> outcome]}]
         \* deploy(check=True) that returns leaves the machine up.
         /\ inv' = IF outcome = "deploy_failed" THEN inv ELSE [inv EXCEPT ![d].mstate = "up"]
         /\ deployed' = IF InDeployed(d, outcome) THEN deployed \cup {d} ELSE deployed
         /\ pc' = IF Exhausted(toDeploy \ {d}) THEN "roster" ELSE "deploy"
    /\ UNCHANGED <<abortCause, now, config, inv0, status, depls, typesLeft, sel, inUse,
                   expired, unusable, toRetire, roster>>

\* ------------------------------------------------------------------ roster

\* Fault: the unusable deployments get a line too.
ListedAll == deployed

\* Line 240: the deployments that get a line.
Listed == deployed \ unusable

\* Lines 242-246: "assert(m)" and config["systemTypes"][type_name].
Renders(d) ==
    /\ inv[d].mstate # "none"
    /\ get_depl_arg(inv[d], "type") \in DOMAIN config.systemTypes

\* Lines 248-264: the columns of a deployment's line.  The machines of the
\* model have no public host key.
RosterLine(d) ==
    LET type_name == get_depl_arg(inv[d], "type")
        type_config == config.systemTypes[type_name]
        colon == {i \in DOMAIN type_name : type_name[i] = ":"}
        cut == IF colon = {} THEN Len(type_name) + 1
               ELSE CHOOSE i \in colon : \A j \in colon : i <= j
        systems == SubSeq(type_name, 1, cut - 1)
        features == SubSeq(type_name, cut + 1, Len(type_name))
        systems_list == IF "x86_64-linux" \in Range(systems) /\ "i686-linux" \notin Range(systems)
                        THEN systems \o <<"i686-linux">> ELSE systems
    IN [depl |-> d,
        target |-> SshTarget(d),
        systems |-> systems_list,
        sshKey |-> Get(type_config, "sshKey", "-"),
        maxJobs |-> Get(type_config, "maxJobs", 1),
        speedFactor |-> Get(type_config, "speedFactor", 1),
        features |-> IF features = << >> THEN <<"-">> ELSE features,
        hostKey |-> "-"]

\* Lines 237-278: the roster is rendered and handed over.
EmitRoster ==
    /\ pc = "roster"
    /\ \A d \in Listed : Renders(d)
    /\ roster' = [i \in 1 .. Cardinality(Listed) |-> RosterLine(SetToSeq(Listed)[i])]
    /\ toRetire' = expired
    /\ log' = [log EXCEPT !.emitted = TRUE]
    /\ pc' = IF expired = {} THEN "done" ELSE "retire"
    /\ UNCHANGED <<abortCause, now, config, inv0, status, inv, depls, typesLeft, sel, inUse,
                   expired, unusable, deployed, toDeploy>>

\* Lines 243 and 246: the assertion or the lookup fails, and the run ends.
RosterRaises ==
    /\ pc = "roster"
    /\ \E d \in Listed : ~Renders(d)
    /\ Abort("roster")
    /\ UNCHANGED <<now, config, inv0, status, inv, depls, typesLeft, sel, inUse, expired,
                   unusable, deployed, toDeploy, toRetire, roster, log>>

\* Lines 271-278: the update command or the write fails, and the run ends.
HandOffRaises ==
    /\ pc = "roster"
    /\ \A d \in Listed : Renders(d)
    /\ Abort("handoff")
    /\ UNCHANGED <<now, config, inv0, status, inv, depls, typesLeft, sel, inUse, expired,
                   unusable, deployed, toDeploy, toRetire, roster, log>>

\* -------------------------------------------------------------- retirement

\* Fault: retirement protects with the 30 minutes of the retention pass.
ProtectedFrom30Min(d) ==
    /\ depl_state(inv[d]) \in {"up", "starting"}
    /\ get_depl_time_left(inv[d], now) >= KeepPaidTime

\* Lines 285-292: paid time protects the deployment from retirement.
Protected(d) ==
    /\ depl_state(inv[d]) \in {"up", "starting"}
    /\ get_depl_time_left(inv[d], now) >= RetirePaidTime

\* Fault: stopOnIdle is not read.
StopOnIdleNever(d) == FALSE

\* Line 294: stop_on_idle = type_config.get("stopOnIdle", False) if type_config else False
StopOnIdle(d) ==
    LET type_name == get_depl_arg(inv[d], "type")
    IN IF type_name \in DOMAIN config.systemTypes
       THEN Get(config.systemTypes[type_name], "stopOnIdle", FALSE)
       ELSE FALSE

\* What the engine is asked to do to a deployment, with the state and the
\* paid time the deployment has at that moment.
Call(d) == [depl |-> d, state |-> depl_state(inv[d]),
            time_left |-> get_depl_time_left(inv[d], now)]

\* Lines 289-292 and 296-297: nothing is done to the deployment.
RetireSkip ==
    /\ pc = "retire"
    /\ \E d \in toRetire :
         /\ NextOf(toRetire, d)
         /\ Protected(d) \/ (StopOnIdle(d) /\ depl_state(inv[d]) = "stopped")
         /\ toRetire' = toRetire \ {d}
         /\ pc' = IF Exhausted(toRetire \ {d}) THEN "done" ELSE "retire"
    /\ UNCHANGED <<abortCause, now, config, inv0, status, inv, depls, typesLeft, sel, inUse,
                   expired, unusable, deployed, toDeploy, roster, log>>

\* Lines 296-299: depl.stop_machines()
RetireStop ==
    /\ pc = "retire"
    /\ \E d \in toRetire, ok \in BOOLEAN :
         /\ NextOf(toRetire, d)
         /\ ~Protected(d)
         /\ StopOnIdle(d)
         /\ depl_state(inv[d]) # "stopped"
         /\ log' = [log EXCEPT !.stopped = @ \cup {Call(d)}]
         /\ IF ok
            THEN /\ inv' = [inv EXCEPT ![d].mstate = "stopped"]
                 /\ toRetire' = toRetire \ {d}
                 /\ pc' = IF Exhausted(toRetire \ {d}) THEN "done" ELSE "retire"
                 /\ UNCHANGED abortCause
            ELSE /\ Abort("stop")
                 /\ UNCHANGED <<inv, toRetire>>
    /\ UNCHANGED <<now, config, inv0, status, depls, typesLeft, sel, inUse, expired, unusable,
                   deployed, toDeploy, roster>>

\* Lines 301-305: depl.destroy_resources() and depl.delete()
RetireDestroy ==
    /\ pc = "retire"
    /\ \E d \in toRetire, ok \in BOOLEAN :
         /\ NextOf(toRetire, d)
         /\ ~Protected(d)
         /\ ~StopOnIdle(d)
         /\ IF ok
            THEN /\ log' = [log EXCEPT !.destroyed = @ \cup {Call(d)}, !.deleted = @ \cup {d}]
                 /\ inv' = [inv EXCEPT ![d] = NoDepl]
                 /\ toRetire' = toRetire \ {d}
                 /\ pc' = IF Exhausted(toRetire \ {d}) THEN "done" ELSE "retire"
                 /\ UNCHANGED abortCause
            ELSE /\ log' = [log EXCEPT !.destroyed = @ \cup {Call(d)}]
                 /\ Abort("destroy")
                 /\ UNCHANGED <<inv, toRetire>>
    /\ UNCHANGED <<now, config, inv0, status, depls, typesLeft, sel, inUse, expired, unusable,
                   deployed, toDeploy, roster>>

Next ==
    \/ StatusFetch
    \/ TypeUnconfigured \/ TypeSized
    \/ SelectCreate \/ SelectCheckedUp \/ SelectCheckedDown
    \/ SelectCheckRaises \/ SelectDiscardMissing \/ SelectAcceptOther
    \/ RetentionPass
    \/ DeployOne
    \/ EmitRoster \/ RosterRaises \/ HandOffRaises
    \/ RetireSkip \/ RetireStop \/ RetireDestroy

Spec == Init /\ [][Next]_vars

\* ------------------------------------------------------- run after run

\* The policies of the runs: those of a single run, one whose maxMachines is
\* the default, 1, and one whose maxMachines is 3.
RunPolicies ==
    Policies
    \cup { [tag |-> DefaultTag,
            systemTypes |-> (TypeA :> [nixopsExpr |-> "a.nix", ignoredRunnables |-> 5])],
           [tag |-> DefaultTag,
            systemTypes |-> (TypeA :> [nixopsExpr |-> "a.nix", maxMachines |-> 3,
                                       ignoredRunnables |-> 5])] }

\* The deployments the first run finds: they have the tag, and are missing,
\* up with or without paid time, or starting.
RunShapes ==
    { Absent, Shape(DefaultTag, TypeA, "none", -1),
      Shape(DefaultTag, TypeA, "up", 0),
      Shape(DefaultTag, TypeA, "up", KeepPaidTime),
      Shape(DefaultTag, TypeA, "starting", KeepPaidTime) }

\* The state file before the first run.
InitRuns ==
    /\ pc = "fetch"
    /\ abortCause = ""
    /\ now = 10000
    /\ config \in RunPolicies
    /\ status = DownStatus
    /\ \E shapes \in [1 .. MaxExisting -> RunShapes] :
         inv = [d \in Slots |-> IF d <= MaxExisting THEN Existing(d, shapes[d], 10000)
                               ELSE NoDepl]
    /\ depls = SetToSeq({d \in Slots : inv[d].alive /\ get_depl_arg(inv[d], "tag") = config.tag})
    /\ inv0 = inv
    /\ typesLeft = {}
    /\ sel = NoSel
    /\ inUse = {} /\ expired = {} /\ unusable = {} /\ deployed = {}
    /\ toDeploy = {} /\ toRetire = {}
    /\ roster = << >>
    /\ log = NoLog

\* Every create, liveness check, deploy, touch, stop and destroy of the run
\* did what it was asked to.
RunSucceeded ==
    /\ abortCause = ""
    /\ log.demoted = {}
    /\ \A r \in log.tried : r.outcome = "ok"

\* What is kept of a run that has ended: the state file it found, what it
\* created and the lines of its roster.
RunSummary == [inv0 |-> inv0, created |-> log.created, roster |-> Range(roster)]

\* Lines 66-89 in the first run.
FirstFetch ==
    /\ log.past = << >>
    /\ StatusFetch

\* Lines 66-89 in a later run: the status command prints what it printed in
\* the run before, which the run normalises as it did then.
RepeatFetch ==
    /\ pc = "fetch"
    /\ log.past # << >>
    /\ typesLeft' = DOMAIN status.machineTypes \cup DOMAIN config.systemTypes
    /\ pc' = "types"
    /\ UNCHANGED <<abortCause, now, config, inv0, status, inv, depls, sel, inUse, expired,
                   unusable, deployed, toDeploy, toRetire, roster, log>>

\* Lines 47-64: the controller is started again, right after a run in which
\* everything succeeded, with the same policy, on the state file as the run
\* left it.
NewRun ==
    /\ pc = "done"
    /\ RunSucceeded
    /\ Len(log.past) + 1 < MaxRuns
    /\ pc' = "fetch"
    /\ inv0' = inv
    /\ depls' = SetToSeq({d \in Slots : inv[d].alive /\ get_depl_arg(inv[d], "tag") = config.tag})
    /\ typesLeft' = {}
    /\ sel' = NoSel
    /\ inUse' = {} /\ expired' = {} /\ unusable' = {} /\ deployed' = {}
    /\ toDeploy' = {} /\ toRetire' = {}
    /\ roster' = << >>
    /\ log' = [NoLog EXCEPT !.past = Append(log.past, RunSummary)]
    /\ UNCHANGED <<abortCause, now, config, status, inv>>

\* The steps of runs in which every liveness check finds the machine up and
\* neither the check nor the roster phase raises.
NextRuns ==
    \/ FirstFetch \/ RepeatFetch
    \/ TypeUnconfigured \/ TypeSized
    \/ SelectCreate \/ SelectCheckedUp \/ SelectDiscardMissing \/ SelectAcceptOther
    \/ RetentionPass
    \/ DeployOne
    \/ EmitRoster
    \/ RetireSkip \/ RetireStop \/ RetireDestroy
    \/ NewRun

RunsSpec == InitRuns /\ [][NextRuns]_vars

\* ---------------------------------------------------------- the sizer alone

\* The sizer's inputs: a policy for x86_64-linux with every key of the sizer
\* set (minMachines <= maxMachines), or with none of them; and a status that
\* has the type, has not, or has a type the policy has not.
SizerConfigs ==
    { [nixopsExpr |-> "a.nix"] }
    \cup { [nixopsExpr |-> "a.nix", ignoredRunnables |-> i, runnablesPerMachine |-> p,
            minMachines |-> mn, maxMachines |-> mx] :
              i \in 0 .. MaxIgnored, p \in 1 .. MaxPerMachine,
              mn \in 0 .. MaxMachines, mx \in 0 .. MaxMachines }

SizerMachineTypes ==
    { << >> }
    \cup { (TypeA :> [runnable |-> r]) : r \in 0 .. MaxRunnable }
    \cup { (TypeA :> [runnable |-> r]) @@ (TypeB :> [runnable |-> MaxRunnable]) :
              r \in 0 .. MaxRunnable }

\* The run as it is when the sizing loop begins, the state file empty.
InitSizer ==
    /\ pc = "types"
    /\ abortCause = ""
    /\ now = 10000
    /\ \E c \in SizerConfigs :
         /\ Get(c, "minMachines", 0) <= Get(c, "maxMachines", 1)
         /\ config = [tag |-> DefaultTag, systemTypes |-> (TypeA :> c)]
    /\ \E mt \in SizerMachineTypes :
         status = [status |-> "up", uptime |-> 5000, machineTypes |-> mt, machines |-> << >>]
    /\ inv = [d \in Slots |-> NoDepl]
    /\ inv0 = inv
    /\ depls = << >>
    /\ typesLeft = DOMAIN status.machineTypes \cup DOMAIN config.systemTypes
    /\ sel = NoSel
    /\ inUse = {} /\ expired = {} /\ unusable = {} /\ deployed = {}
    /\ toDeploy = {} /\ toRetire = {}
    /\ roster = << >>
    /\ log = NoLog

\* Lines 96-167 with an empty state file.
NextSizer == TypeUnconfigured \/ TypeSized \/ SelectCreate

SizerSpec == InitSizer /\ [][NextSizer]_vars

\* ------------------------------------------------------------------ claims

\* The retention pass has classified every deployment and nothing has ended
\* the run.
Classified == pc \in {"deploy", "roster", "retire", "done"}

RosterDepls == {roster[i].depl : i \in DOMAIN roster}

\* C1: a deployment the selection loop did not take, that is up or starting
\* with less than 30 minutes of paid time, has jobs on the dispatcher and is
\* of a type whose gracePeriod is 0, is in inUse and in unusable, has no
\* line in the roster, and is neither stopped nor destroyed.
C1_ActiveZeroGrace ==
    Classified =>
        \A d \in Range(depls) \ log.selected :
            (Retention(d) = "active" /\ GracePeriod(d) = 0) =>
                /\ d \in inUse
                /\ d \in unusable
                /\ d \notin RosterDepls
                /\ \A c \in log.stopped \cup log.destroyed : c.depl # d

\* C2, as claimed: destroy_resources is never called on a deployment, in
\* whatever state, that has 10 minutes or more of paid time left.
C2_DestroySafetyAnyState ==
    \A c \in log.destroyed : c.time_left < RetirePaidTime

\* C2, amended: destroy_resources is never called on a deployment that is up
\* or starting and has 10 minutes or more of paid time left.
C2_DestroySafetyLive ==
    \A c \in log.destroyed :
        c.state \in {"up", "starting"} => c.time_left < RetirePaidTime

\* A run that destroyed a live deployment and spared another one for its
\* paid time.
C2_Witness ==
    /\ pc = "done"
    /\ \E c \in log.destroyed : c.state \in {"up", "starting"}
    /\ \E d \in expired : inv[d].alive /\ Protected(d)

\* The deployment was up or starting, with 30 minutes or more of paid time,
\* when the run began.
LiveAndPaidAtStart(d) ==
    /\ inv0[d].alive
    /\ depl_state(inv0[d]) \in {"up", "starting"}
    /\ get_depl_time_left(inv0[d], now) >= KeepPaidTime

\* C3, as claimed: every tagged deployment that was up or starting with 30
\* minutes or more of paid time at the start of the run is in inUse at its
\* end, whatever the liveness checks found.
C3_PaidTimeRetention ==
    pc = "done" =>
        \A d \in Range(depls) : LiveAndPaidAtStart(d) => d \in inUse

\* C3, amended: every such deployment that no liveness check of the run
\* found in another state is in inUse, and not in expired, at the end of
\* the run.
C3_PaidTimeRetentionUnlessDemoted ==
    pc = "done" =>
        \A d \in Range(depls) :
            (LiveAndPaidAtStart(d) /\ d \notin log.demoted) =>
                (d \in inUse /\ d \notin expired)

\* A finished run that kept, for its paid time, a deployment the selection
\* loop did not take, and expired another one.
C3_Witness ==
    /\ pc = "done"
    /\ \E d \in Range(depls) \ log.selected : LiveAndPaidAtStart(d) /\ d \in inUse
    /\ expired # {}

\* C4: whatever the status command does, the status fetch never ends the
\* run.
C4_FetchFailureSwallowed == abortCause # "status"

\* C5: a deployment whose deploy or keep-alive touch failed is not in
\* deployed, a deployment is in deployed only if both succeeded, the deploy
\* loop tries every deployment of in_use whatever failed before, and a failed
\* deploy does not end the run: the roster phase follows.
C5_DeployFailureLocalised ==
    /\ \A r \in log.tried : r.outcome # "ok" => r.depl \notin deployed
    /\ \A d \in deployed : [depl |-> d, outcome |-> "ok"] \in log.tried
    /\ pc \in {"roster", "retire", "done"} => inUse = {r.depl : r \in log.tried}
    /\ (\E r \in log.tried : r.outcome # "ok") =>
          /\ pc \in {"deploy", "roster", "retire", "done", "aborted"}
          /\ pc = "aborted" => abortCause \in {"roster", "handoff", "stop", "destroy"}

\* A finished run in which a deploy failed, a deployment tried after it was
\* deployed and listed, and a deployment was retired.
C5_Witness ==
    /\ pc = "done"
    /\ \E r \in log.tried :
         /\ r.outcome # "ok"
         /\ \E d \in deployed : d > r.depl /\ d \in RosterDepls
    /\ log.destroyed # {}

\* C6: a stop_machines or destroy_resources that fails does not end the run.
C6_RetireFailureLocalised == abortCause \notin {"stop", "destroy"}

SelectedOfType(t) == {d \in log.selected : get_depl_arg(inv[d], "type") = t}

\* C7: for every configured machine type, the deployments of the type that
\* the selection loop took, the created one included, are at most
\* maxMachines.
C7_Cap ==
    \A t \in DOMAIN config.systemTypes :
        Cardinality(SelectedOfType(t)) <= Get(config.systemTypes[t], "maxMachines", 1)

\* The demand is above maxMachines, and the loop took maxMachines
\* deployments, one of them created.
C7_Witness ==
    \E t \in DOMAIN config.systemTypes :
        /\ Wanted(Get(status.machineTypes, t, [runnable |-> 0]).runnable,
                  config.systemTypes[t]) > Get(config.systemTypes[t], "maxMachines", 1)
        /\ Cardinality(SelectedOfType(t)) = Get(config.systemTypes[t], "maxMachines", 1)
        /\ \E r \in log.created : r.type = t
        /\ pc = "done"

\* C8: a run creates at most one deployment per machine type, and creates
\* one only when the pool of the type is empty and have < allowed.
C8_CreationCap ==
    /\ \A r1, r2 \in log.created : r1.type = r2.type => r1 = r2
    /\ \A r \in log.created : r.pool = 0 /\ r.have < r.allowed

\* A finished run that created one deployment where two more were allowed,
\* and one of another type.
C8_Witness ==
    /\ pc = "done"
    /\ \E r \in log.created : r.allowed - r.have >= 2
    /\ Cardinality(log.created) = 2

\* C9: the name of a created deployment differs from the name of every
\* other deployment in the state file, whatever its tag.
C9_NameUniqueness ==
    \A r \in log.created : \A d \in Slots \ {r.depl} :
        (inv[d].alive /\ inv[r.depl].alive) => inv[d].name # inv[r.depl].name

\* C10: a deployment whose tag argument is not the tag of the policy is
\* left as it was: not checked, given no recipe, in none of the sets and not
\* in the roster, and not deployed, stopped, destroyed or deleted.
C10_TagIsolation ==
    \A d \in Slots :
        (inv0[d].alive /\ Get(inv0[d].args, "tag", << >>) # config.tag) =>
            /\ inv[d] = inv0[d]
            /\ d \notin log.checked \cup log.recipe \cup log.deleted
            /\ d \notin inUse \cup expired \cup deployed
            /\ d \notin RosterDepls
            /\ \A c \in log.tried \cup log.stopped \cup log.destroyed : c.depl # d

\* C11: every line of the roster is the line of a deployment of
\* deployed \ unusable, no deployment has two lines and no two lines name
\* the same machine, and no deployment that is expired, unusable or whose
\* deploy failed has a line.
C11_RosterSubset ==
    /\ \A i \in DOMAIN roster :
         /\ roster[i].depl \in deployed \ unusable
         /\ roster[i].depl \notin expired
         /\ \A r \in log.tried : r.outcome # "ok" => r.depl # roster[i].depl
    /\ \A i, j \in DOMAIN roster :
         (roster[i].depl = roster[j].depl \/ roster[i].target = roster[j].target) => i = j
    /\ log.emitted => RosterDepls = deployed \ unusable

\* A finished run with a roster and a deployed deployment kept out of it for
\* being unusable.
C11_Witness ==
    /\ pc = "done"
    /\ roster # << >>
    /\ deployed \cap unusable # {}

\* C12: nothing is sized before the status fetch; every deployment is
\* classified before the first deploy, stop or destroy; the roster is handed
\* over only after every in_use deployment has been tried; and nothing is
\* stopped or destroyed before the roster is handed over.
C12_PhaseOrdering ==
    /\ pc = "fetch" => (sel = NoSel /\ inUse = {} /\ expired = {} /\ log.selected = {})
    /\ (log.tried # {} \/ log.stopped # {} \/ log.destroyed # {}) =>
          /\ pc \notin {"fetch", "types", "select"}
          /\ typesLeft = {}
          /\ Range(depls) = inUse \cup expired
    /\ log.emitted =>
          /\ toDeploy = {}
          /\ inUse = {r.depl : r \in log.tried}
    /\ (log.stopped # {} \/ log.destroyed # {}) => log.emitted

\* A finished run that selected, deployed, handed the roster over, stopped
\* nothing and destroyed.
C12_Witness ==
    /\ pc = "done"
    /\ log.checked # {} /\ log.created # {}
    /\ Cardinality(log.tried) >= 2
    /\ log.emitted
    /\ log.destroyed # {}

\* The policy has stopOnIdle set for the type the deployment had when the
\* run began.
TypeStops(d) ==
    LET type_name == get_depl_arg(inv0[d], "type")
    IN /\ type_name \in DOMAIN config.systemTypes
       /\ Get(config.systemTypes[type_name], "stopOnIdle", FALSE) = TRUE

\* The call was made on a deployment that paid time did not protect.
Unprotected(c) == ~(c.state \in {"up", "starting"} /\ c.time_left >= RetirePaidTime)

\* C16: stop_machines is called only on an unprotected deployment of a
\* stopOnIdle type that is not stopped, and every such expired deployment
\* gets the call and is neither destroyed nor deleted; destroy_resources and
\* delete are called only on unprotected deployments of the other types, and
\* every such expired deployment is destroyed and deleted.
C16_StopOnIdle ==
    /\ \A c \in log.stopped : TypeStops(c.depl) /\ Unprotected(c) /\ c.state # "stopped"
    /\ \A c \in log.destroyed : ~TypeStops(c.depl) /\ Unprotected(c)
    /\ \A d \in log.deleted : \E c \in log.destroyed : c.depl = d
    /\ pc = "done" =>
          \A d \in expired :
              IF TypeStops(d)
              THEN /\ inv[d].alive
                   /\ IF \E c \in log.stopped : c.depl = d
                      THEN depl_state(inv[d]) = "stopped"
                      ELSE Protected(d) \/ depl_state(inv[d]) = "stopped"
              ELSE IF inv[d].alive THEN Protected(d) ELSE d \in log.deleted

\* A finished run that stopped a deployment of a stopOnIdle type and left
\* another one, already stopped, alone.
C16_Witness ==
    /\ pc = "done"
    /\ log.stopped # {}
    /\ \E d \in expired :
         /\ TypeStops(d)
         /\ \A c \in log.stopped : c.depl # d
         /\ depl_state(inv0[d]) = "stopped"

\* C17, as claimed: a deployment that the liveness check found not up is
\* not taken by the selection loop of the run.
C17_DemotedNeverTaken == log.demoted \cap log.selected = {}

\* C17, amended: the iteration that finds the candidate not up takes
\* nothing and counts nothing, sorts the pool again with the candidate still
\* in it behind every deployment that is up, and goes on; the candidate is
\* taken later only as the head of a pool that holds no deployment that is
\* up, and only if the check did not find it missing.
C17_DemotedKeptInPool ==
    [][ /\ log'.demoted # log.demoted =>
             /\ inUse' = inUse
             /\ sel'.have = sel.have
             /\ pc' = "select"
             /\ Head(sel.existing) \in Range(sel'.existing)
             /\ Len(sel'.existing) = Len(sel.existing)
             /\ \A i, j \in DOMAIN sel'.existing :
                  (i < j /\ depl_state(inv'[sel'.existing[j]]) = "up")
                      => depl_state(inv'[sel'.existing[i]]) = "up"
        /\ \A d \in log.demoted :
             d \in log'.selected \ log.selected =>
                 /\ d = Head(sel.existing)
                 /\ depl_state(inv[d]) \notin {"up", "missing"}
                 /\ \A e \in Range(sel.existing) : depl_state(inv[e]) # "up"
      ]_vars

\* A finished run that took a deployment its liveness check had found not
\* up.
C17_Witness ==
    /\ pc = "done"
    /\ log.demoted \cap log.selected # {}

\* A deployment the selection loop did not take, up or starting, with less
\* than 30 minutes of paid time and no job on the dispatcher, of a type whose
\* gracePeriod is 0 or that the policy does not have.
IdleZeroGrace(d) ==
    LET type_name == get_depl_arg(inv[d], "type")
    IN /\ d \in Range(depls) \ log.selected
       /\ depl_state(inv[d]) \in {"up", "starting"}
       /\ get_depl_time_left(inv[d], now) < KeepPaidTime
       /\ Get(Get(status.machines, SshTarget(d), << >>), "currentJobs", 0) = 0
       /\ \/ type_name \notin DOMAIN config.systemTypes
          \/ Get(config.systemTypes[type_name], "gracePeriod", 0) = 0

\* C18, as claimed: such a deployment is expired, whatever the status.
C18_EmptyGraceExpires ==
    Classified => \A d \in Slots : IdleZeroGrace(d) => d \in expired

\* C18, amended: such a deployment is expired when the status has a lastActive
\* for its type that is not zero and not later than now, or has none (or
\* zero) and an uptime of 1800 s or more; otherwise, as with the status down,
\* whose uptime is 0, it is kept in inUse.
C18_EmptyGraceExpiresUnlessImputed ==
    Classified =>
        \A d \in Slots :
            IdleZeroGrace(d) =>
                LET type_status == Get(status.machineTypes, get_depl_arg(inv[d], "type"), << >>)
                    last_active == Get(type_status, "lastActive", 0)
                    past == IF last_active = 0 THEN status.uptime >= 1800
                            ELSE last_active <= now
                IN IF past THEN d \in expired /\ d \notin inUse
                   ELSE d \in inUse /\ d \notin expired

\* A finished run with the status down that kept such a deployment and
\* listed it.
C18_Witness ==
    /\ pc = "done"
    /\ status.status = "down"
    /\ \E d \in Slots : IdleZeroGrace(d) /\ d \in inUse /\ d \in RosterDepls

\* C20: when the roster is rendered, every deployment of deployed \ unusable
\* has a machine and a type the policy has, so that neither the assertion nor
\* the lookup of the type's policy fails and rendering does not end the run.
C20_RosterRenders ==
    /\ pc = "roster" =>
          \A d \in deployed \ unusable :
              /\ inv[d].mstate # "none"
              /\ get_depl_arg(inv[d], "type") \in DOMAIN config.systemTypes
    /\ abortCause # "roster"

PoolMeasure ==
    Len(sel.existing)
    + Cardinality({i \in DOMAIN sel.existing : depl_state(inv[sel.existing[i]]) = "up"})

\* What the run has left to do: it is 0 when the run has ended, and every
\* step makes it smaller.
Rank ==
    LET S == Cardinality(Slots)
        M == 2 * S + 2
    IN CASE pc \in {"done", "aborted"} -> 0
         [] pc = "retire" -> 1 + Cardinality(toRetire)
         [] pc = "roster" -> 2 + S
         [] pc = "deploy" -> 3 + S + Cardinality(toDeploy)
         [] pc = "types" -> 4 + 2 * S + Cardinality(typesLeft) * M
         [] pc = "select" -> 4 + 2 * S + Cardinality(typesLeft) * M + 1 + PoolMeasure
         [] pc = "fetch" -> 5 + 2 * S + 4 * M

C15_Sizer ==
    /\ sel.type = TypeA =>
          LET c == config.systemTypes[TypeA]
              mn == Get(c, "minMachines", 0)
              mx == Get(c, "maxMachines", 1)
              per == Get(c, "runnablesPerMachine", 10)
              runnable == IF TypeA \in DOMAIN status.machineTypes
                          THEN status.machineTypes[TypeA].runnable ELSE 0
              demand == IF runnable > Get(c, "ignoredRunnables", 0)
                        THEN runnable - Get(c, "ignoredRunnables", 0) ELSE 0
              wanted == CHOOSE w \in 0 .. demand :
                            /\ w * per >= demand
                            /\ \A v \in 0 .. (w - 1) : v * per < demand
          IN /\ sel.allowed = (IF wanted < mn THEN mn ELSE IF wanted > mx THEN mx ELSE wanted)
             /\ mn <= sel.allowed /\ sel.allowed <= mx
             /\ TypeA \notin DOMAIN status.machineTypes => sel.allowed = mn
    /\ \A d \in Slots :
          inv[d].alive => get_depl_arg(inv[d], "type") \in DOMAIN config.systemTypes
    /\ \A d \in inUse : get_depl_arg(inv[d], "type") \in DOMAIN config.systemTypes

\* The sizing loop has ended: the demand for x86_64-linux was above
\* maxMachines and a deployment was created for it, and the status had a type
\* the policy has not.
C15_Witness ==
    /\ typesLeft = {} /\ pc = "types"
    /\ TypeB \in DOMAIN status.machineTypes
    /\ sel.type = TypeA
    /\ Wanted(status.machineTypes[TypeA].runnable, config.systemTypes[TypeA]) > sel.allowed
    /\ sel.allowed > Get(config.systemTypes[TypeA], "minMachines", 0)
    /\ log.created # {}

\* ---- C14 / C13: run after run (RunsSpec)

\* Which run this is, and the state file the first run found.
RunNumber == Len(log.past) + 1
FirstInventory == IF log.past = << >> THEN inv0 ELSE log.past[1].inv0

\* Lines 98-107 for the type t of the policy, on the status of the runs.
TypeAllowed(t) ==
    LET type_status == Get(status.machineTypes, t, [runnable |-> 0])
        type_config == config.systemTypes[t]
    IN Allowed(Wanted(type_status.runnable, type_config), type_config)

OfType(t) == {d \in Slots : inv[d].alive /\ get_depl_arg(inv[d], "type") = t}

\* C14: the first run found an empty state file, the status and the policy
\* stay what they are and every create, liveness check, deploy and touch
\* succeeds.  Then, for a type of the policy with allowed = N, run k ends
\* with min(k, N) deployments of the type, each of them with a roster line;
\* it has created exactly one when k <= N, and none when k > N.
C14_ScaleUpConvergence ==
    (/\ pc = "done"
     /\ RunSucceeded
     /\ \A d \in Slots : ~FirstInventory[d].alive)
    => \A t \in DOMAIN config.systemTypes :
          LET N == TypeAllowed(t)
              k == RunNumber
          IN /\ Cardinality(OfType(t)) = Min(k, N)
             /\ Cardinality({c \in log.created : c.type = t}) = (IF k <= N THEN 1 ELSE 0)
             /\ {l.depl : l \in Range(roster)} \cap OfType(t) = OfType(t)
             /\ Len(roster) = Cardinality(Range(roster))
             /\ k > 1 =>
                  Cardinality({c \in log.past[k - 1].created : c.type = t})
                      = (IF k - 1 <= N THEN 1 ELSE 0)

\* The fourth run from an empty state file has ended, with allowed = 3 for
\* x86_64-linux: there are three deployments of the type, the roster has
\* their three lines, the run has created nothing, and the three runs before
\* it have created one each.
C14_Witness ==
    /\ pc = "done"
    /\ RunSucceeded
    /\ RunNumber = 4
    /\ \A d \in Slots : ~FirstInventory[d].alive
    /\ TypeA \in DOMAIN config.systemTypes
    /\ TypeAllowed(TypeA) = 3
    /\ Cardinality(OfType(TypeA)) = 3
    /\ Cardinality({l \in Range(roster) : l.depl \in OfType(TypeA)}) = 3
    /\ log.created = {}
    /\ \A i \in 1 .. 3 : Cardinality(log.past[i].created) = 1

\* The run before this one.
PreviousRun == log.past[Len(log.past)]

\* C13 as stated: a run that follows a run, with the policy and the status
\* unchanged and everything succeeding, gives the roster that run gave, as a
\* set of lines.
C13_SameRoster ==
    (pc = "done" /\ RunSucceeded /\ log.past # << >>)
    => Range(roster) = PreviousRun.roster

\* The state file i has nothing left to converge to: every deployment with
\* the tag is up, and every type of the policy has at least as many of them
\* as the clamp of its demand allows.
Settled(i) ==
    LET tagged == {d \in Slots : i[d].alive /\ get_depl_arg(i[d], "tag") = config.tag}
    IN /\ \A d \in tagged : depl_state(i[d]) = "up"
       /\ \A t \in DOMAIN config.systemTypes :
            LET c == config.systemTypes[t]
                runnable == IF t \in DOMAIN status.machineTypes
                            THEN status.machineTypes[t].runnable ELSE 0
                wanted == Wanted(runnable, c)
                mn == Get(c, "minMachines", 0)
                mx == Get(c, "maxMachines", 1)
                clamp == IF wanted < mn THEN Min(mn, mx) ELSE IF wanted > mx THEN mx ELSE wanted
            IN Cardinality({d \in tagged : get_depl_arg(i[d], "type") = t}) >= clamp

\* C13, amended: when the run before this one started from a settled state
\* file, and the policy, the status and the clock are unchanged and
\* everything succeeds, this run gives the roster that run gave, as a set of
\* lines.
C13_SameRosterOnceSettled ==
    (pc = "done" /\ RunSucceeded /\ log.past # << >> /\ Settled(PreviousRun.inv0))
    => Range(roster) = PreviousRun.roster

\* A second run has ended after a first run that started from a settled
\* state file, listed a deployment and destroyed another.
C13_Witness ==
    /\ pc = "done"
    /\ RunSucceeded
    /\ log.past # << >>
    /\ Settled(PreviousRun.inv0)
    /\ roster # << >>
    /\ \E d \in Slots : PreviousRun.inv0[d].alive /\ ~inv[d].alive

====
